---------------------------- MODULE Spec2Model ----------------------------
(***************************************************************************)
(* Model of the SoCa (Submission over Criteria) analysis tool:             *)
(*   - services/openai_client.py: extract_analysis_content,                *)
(*     build_comparison_prompt, the chat-completion client;                *)
(*   - ui/main_page.py, ui/sidebar.py, app.py: the Streamlit session.      *)
(*                                                                         *)
(* Python strings are sequences of atoms.  An atom is a TLA+ string that   *)
(* stands for one lexical unit of the text (a punctuation character, a     *)
(* word, a number); "\"" is the quote character and "\n" the newline.      *)
(***************************************************************************)
EXTENDS Integers, Sequences, FiniteSets, TLC

VARIABLES
    ex_analysis,    \* extractor run: the record passed to extract_analysis_content
    ex_result,      \* extractor run: what the call returned (or that it raised)
    ex_pc,          \* extractor run: "input" before the call, "done" after it
    bp_analyses,    \* prompt run: the records passed to build_comparison_prompt
    bp_prompt,      \* prompt run: the prompt built from bp_analyses
    bp_swap,        \* prompt run: the two positions exchanged for the second call
    bp_swapped,     \* prompt run: the prompt built from the exchanged list
    bp_pc,          \* prompt run: "input", "built", "swapped"
    cc,             \* chat run: reply (what the POST came to), the outcomes completion,
                    \* summary and questions of the three calls, pc ("input", "done")
    tab,            \* tab run: result (the record whose tab is rendered), shown (what
                    \* the tab shows, or that it raised), pc ("input", "done")
    AZURE_OPENAI_KEY,       \* config: the key, "" when unset
    AZURE_OPENAI_ENDPOINT,  \* config: the endpoint, "" when unset
    uploaded_files, \* the file_uploader widget: the files uploaded, in order
    selected_submission,    \* the follow-up selectbox: the chosen name, <<>> before it is shown
    session_state,  \* st.session_state: key -> value
    click,          \* the button whose press started the script run at hand
    request,        \* the generation the user's latest interaction asked for, "none" if none
    pc,             \* where the script run is: "idle" between runs
    proc,           \* process_submissions' locals: i and results
    events,         \* the script run at hand: progress reports, backend calls and responses
    chat_calls,     \* the number of chat-completion calls issued so far
    batch,          \* the number of batches processed so far
    origin,         \* the cached summary's batch and call; per cached questions, their batch
    screen          \* what the latest script run rendered

ex_vars == <<ex_analysis, ex_result, ex_pc>>
bp_vars == <<bp_analyses, bp_prompt, bp_swap, bp_swapped, bp_pc>>
config_vars == <<AZURE_OPENAI_KEY, AZURE_OPENAI_ENDPOINT>>
widget_vars == <<uploaded_files, selected_submission>>
run_vars == <<click, request, pc, proc, screen>>
log_vars == <<chat_calls, batch, origin>>
app_vars == <<config_vars, widget_vars, session_state, run_vars, events, log_vars>>
cc_vars == <<cc>>
tab_vars == <<tab>>
pure_vars == <<ex_vars, bp_vars, cc_vars, tab_vars>>
vars == <<ex_vars, bp_vars, cc_vars, tab_vars, app_vars>>

\* ------------------------------------------------------------------ bounds
\* Longest list of chat entries in a generated payload.
MaxEntries == 2

\* ----------------------------------------------------------- Python values
\* A decoded Python object: [k |-> kind, v |-> value].
PyStr(s) == [k |-> "str", v |-> s]
PyInt(n) == [k |-> "int", v |-> n]
PyBool(b) == [k |-> "bool", v |-> b]
PyNone == [k |-> "none", v |-> 0]
PyList(items) == [k |-> "list", v |-> items]
PyDict(f) == [k |-> "dict", v |-> f]
EmptyDict == PyDict(<<>>)
S(word) == PyStr(<<word>>)
EmptyStr == PyStr(<<>>)

\* The outcome of evaluating a Python expression: a value, or an exception.
Returned(v) == [exc |-> FALSE, val |-> v]
Raised == [exc |-> TRUE, val |-> PyNone]

\* ------------------------------------------------------------- json.loads
\* json.loads(text): the decoded value, or failure (json.JSONDecodeError).
\* The decoder results carry the position after the value that was read.
Decoded(v, n) == [ok |-> TRUE, val |-> v, next |-> n]
DecodeError == [ok |-> FALSE, val |-> PyNone, next |-> 0]

At(s, i) == IF i >= 1 /\ i <= Len(s) THEN s[i] ELSE "<eof>"

IsNumberAtom(a) == a \in {"0", "7"}
NumberOf(a) == IF a = "7" THEN 7 ELSE 0

\* A string literal: the atoms up to the closing quote (i is past the opening one).
RECURSIVE scanstring(_, _, _)
scanstring(s, i, acc) ==
    IF i > Len(s) THEN DecodeError
    ELSE IF s[i] = "\"" THEN Decoded(PyStr(acc), i + 1)
    ELSE scanstring(s, i + 1, Append(acc, s[i]))

RECURSIVE scan_once(_, _), parse_array(_, _, _), parse_object(_, _, _)
\* One JSON value starting at position i.
scan_once(s, i) ==
    LET a == At(s, i) IN
    IF a = "\"" THEN scanstring(s, i + 1, <<>>)
    ELSE IF a = "{" THEN
        IF At(s, i + 1) = "}" THEN Decoded(EmptyDict, i + 2)
        ELSE parse_object(s, i + 1, <<>>)
    ELSE IF a = "[" THEN
        IF At(s, i + 1) = "]" THEN Decoded(PyList(<<>>), i + 2)
        ELSE parse_array(s, i + 1, <<>>)
    ELSE IF a = "null" THEN Decoded(PyNone, i + 1)
    ELSE IF a = "true" THEN Decoded(PyBool(TRUE), i + 1)
    ELSE IF a = "false" THEN Decoded(PyBool(FALSE), i + 1)
    ELSE IF IsNumberAtom(a) THEN Decoded(PyInt(NumberOf(a)), i + 1)
    ELSE DecodeError

\* The elements of a non-empty array; i is at the next element.
parse_array(s, i, acc) ==
    LET e == scan_once(s, i) IN
    IF ~e.ok THEN DecodeError
    ELSE IF At(s, e.next) = "," THEN parse_array(s, e.next + 1, Append(acc, e.val))
    ELSE IF At(s, e.next) = "]" THEN Decoded(PyList(Append(acc, e.val)), e.next + 1)
    ELSE DecodeError

\* The members of a non-empty object; i is at the next key.  A repeated key
\* keeps its last value (dict assignment).
parse_object(s, i, acc) ==
    IF At(s, i) # "\"" THEN DecodeError
    ELSE LET key == scanstring(s, i + 1, <<>>) IN
         IF ~key.ok \/ At(s, key.next) # ":" THEN DecodeError
         ELSE LET e == scan_once(s, key.next + 1) IN
              IF ~e.ok THEN DecodeError
              ELSE LET d == (key.val.v :> e.val) @@ acc IN
                   IF At(s, e.next) = "," THEN parse_object(s, e.next + 1, d)
                   ELSE IF At(s, e.next) = "}" THEN Decoded(PyDict(d), e.next + 1)
                   ELSE DecodeError

\* The whole text must be one value ("Extra data" is an error).
json_loads(s) ==
    LET r == scan_once(s, 1) IN
    IF r.ok /\ r.next = Len(s) + 1 THEN r ELSE DecodeError

\* ------------------------------------------------------------ the session
\* Bounds: the files of one upload, the batches and the chat-completion
\* calls of one session.
MaxFiles == 2
MaxBatches == 2
MaxChatCalls == 3

\* dict operations
Put(d, key, value) == (key :> value) @@ d
Del(d, key) == [x \in DOMAIN d \ {key} |-> d[x]]
GetOr(d, key, default) == IF key \in DOMAIN d THEN d[key] ELSE default

\* app.py, "Initialize session state if not exists"
InitialSessionState ==
    ("analysis_completed" :> FALSE) @@ ("results" :> <<>>) @@ ("thread_ids" :> <<>>)

\* What a script run has rendered so far: the buttons and the selectbox
\* options on the page, st.error / st.info messages, the comparative summary
\* and the follow-up questions shown.
BlankScreen ==
    [buttons |-> {}, options |-> <<>>, errors |-> {}, summary |-> <<>>,
     questions |-> <<>>, info |-> {}]

\* render_sidebar: "Analyze Submissions" always, "Clear Results" once the
\* analysis is completed.
SidebarButtons(state) ==
    {"analyze"} \cup (IF GetOr(state, "analysis_completed", FALSE) THEN {"clear"} ELSE {})

NoProc == [i |-> 0, results |-> <<>>]

AppInitWith(key, endpoint) ==
    /\ AZURE_OPENAI_KEY = key
    /\ AZURE_OPENAI_ENDPOINT = endpoint
    /\ uploaded_files = <<>>
    /\ selected_submission = <<>>
    /\ session_state = InitialSessionState
    /\ click = "none"
    /\ request = "none"
    /\ pc = "idle"
    /\ proc = NoProc
    /\ events = <<>>
    /\ chat_calls = 0
    /\ batch = 0
    /\ origin = [summary |-> [batch |-> 0, call |-> 0], followups |-> <<>>]
    /\ screen = [BlankScreen EXCEPT !.buttons = {"analyze"},
                                    !.info = {"Please upload one or more submission files"}]

\* The parts that the specification at hand leaves out stay as they are here.
AppOff == AppInitWith("", "")
ExOff ==
    /\ ex_analysis = <<>>
    /\ ex_result = [exc |-> FALSE, val |-> <<>>]
    /\ ex_pc = "off"
BpOff ==
    /\ bp_analyses = <<>>
    /\ bp_prompt = <<>>
    /\ bp_swap = <<0, 0>>
    /\ bp_swapped = <<>>
    /\ bp_pc = "off"
CcOff == cc = [pc |-> "off"]
TabOff == tab = [pc |-> "off"]

\* ------------------------------------------------ extract_analysis_content
NO_ANALYSIS == <<"No analysis available">>
NEWLINE == <<"\n">>

\* obj.get(key, default): AttributeError unless obj is a dict.
get(obj, key, default) ==
    IF obj.k # "dict" THEN Raised
    ELSE IF <<key>> \in DOMAIN obj.v THEN Returned(obj.v[<<key>>])
    ELSE Returned(default)

\* bool(value), as `if content:` takes it.
truthy(value) ==
    CASE value.k = "str" -> value.v # <<>>
      [] value.k = "int" -> value.v # 0
      [] value.k = "bool" -> value.v
      [] value.k = "list" -> value.v # <<>>
      [] value.k = "dict" -> DOMAIN value.v # {}
      [] OTHER -> FALSE

\* Mutation: the allow-list of the individual display, "summary" alone.
AllowList_summary_only == {S("summary")}

\* The chat names whose content is extracted.
AllowList == {S("summary"), S("applicant_lookup_agent")}

RECURSIVE SetToSeq(_)
SetToSeq(set) ==
    IF set = {} THEN <<>>
    ELSE LET x == CHOOSE y \in set : TRUE IN <<x>> \o SetToSeq(set \ {x})

\* `for header in analysis_data`: the items the loop visits, or TypeError.
\* A dict yields its keys and a str its characters: all of them str objects.
iterate(data) ==
    CASE data.k = "list" -> Returned(data.v)
      [] data.k = "dict" -> Returned([i \in 1..Cardinality(DOMAIN data.v) |->
                                        PyStr(SetToSeq(DOMAIN data.v)[i])])
      [] data.k = "str" -> Returned([i \in 1..Len(data.v) |-> S(data.v[i])])
      [] OTHER -> Raised

\* The `content + "\n"` of one loop iteration: TypeError unless content is a str.
content_line(content) ==
    IF content.k = "str" THEN Returned(content.v \o NEWLINE) ELSE Raised

\* One iteration of the loop: the text it appends to analysis_text, or the
\* exception it raises.
loop_body(header) ==
    LET chat_dict == get(header, "__dict__", EmptyDict) IN
    IF chat_dict.exc THEN Raised
    ELSE LET chat_name == get(chat_dict.val, "chat_name", EmptyStr) IN
    IF chat_name.exc THEN Raised
    ELSE IF chat_name.val \notin AllowList THEN Returned(<<>>)
    ELSE LET chat_response == get(chat_dict.val, "chat_response", EmptyDict) IN
    IF chat_response.exc THEN Raised
    ELSE LET chat_message == get(chat_response.val, "chat_message", EmptyDict) IN
    IF chat_message.exc THEN Raised
    ELSE LET inner == get(chat_message.val, "__dict__", EmptyDict) IN
    IF inner.exc THEN Raised
    ELSE LET content == get(inner.val, "content", EmptyStr) IN
    IF content.exc THEN Raised
    ELSE IF ~truthy(content.val) THEN Returned(<<>>)
    ELSE content_line(content.val)

\* Mutation: an iteration that raises is skipped and the loop goes on.
RECURSIVE for_header_skip_bad(_, _, _)
for_header_skip_bad(items, i, analysis_text) ==
    IF i > Len(items) THEN Returned(analysis_text)
    ELSE LET step == loop_body(items[i]) IN
         IF step.exc THEN for_header_skip_bad(items, i + 1, analysis_text)
         ELSE for_header_skip_bad(items, i + 1, analysis_text \o step.val)

\* The loop from item i on, analysis_text being the text accumulated so far.
RECURSIVE for_header(_, _, _)
for_header(items, i, analysis_text) ==
    IF i > Len(items) THEN Returned(analysis_text)
    ELSE LET step == loop_body(items[i]) IN
         IF step.exc THEN Raised
         ELSE for_header(items, i + 1, analysis_text \o step.val)

HasAnalysis(analysis) == "Analysis" \in DOMAIN analysis

\* analysis.get("Analysis", "No analysis available")
raw_analysis(analysis) ==
    IF HasAnalysis(analysis) THEN analysis["Analysis"] ELSE NO_ANALYSIS

\* The try block up to the end of the loop: analysis_text, or an exception.
try_block(analysis) ==
    LET text == IF HasAnalysis(analysis) THEN analysis["Analysis"] ELSE <<"{", "}">>
        analysis_data == json_loads(text)
    IN  IF ~analysis_data.ok THEN Raised
        ELSE LET items == iterate(analysis_data.val) IN
             IF items.exc THEN Raised
             ELSE for_header(items.val, 1, <<>>)

\* What a call of a text-valued function produced.
TextReturned(text) == [exc |-> FALSE, val |-> text]
TextRaised == [exc |-> TRUE, val |-> <<>>]

\* Mutation: the handler answers with the sentinel, not the payload.
except_block_sentinel(analysis) == TextReturned(NO_ANALYSIS)

\* `except Exception:` catches whatever the try block raised.
except_block(analysis) == TextReturned(raw_analysis(analysis))

\* Mutation: no fallback when nothing was extracted.
after_loop_no_fallback(analysis, analysis_text) == analysis_text

\* `if not analysis_text:` after the loop.
after_loop(analysis, analysis_text) ==
    IF analysis_text = <<>> THEN raw_analysis(analysis) ELSE analysis_text

\* The call as its caller sees it: the returned text, or a propagated exception.
extract_outcome(analysis) ==
    LET body == try_block(analysis) IN
    IF body.exc THEN except_block(analysis)
    ELSE TextReturned(after_loop(analysis, body.val))

extract_analysis_content(analysis) == extract_outcome(analysis).val

\* ------------------------------------------------------- payload texts
\* The texts the analysis backend may hand back, written atom by atom.
Q(word) == <<"\"", word, "\"">>
QWords(words) == <<"\"">> \o words \o <<"\"">>
RECURSIVE Join(_, _)
Join(texts, sep) ==
    IF texts = <<>> THEN <<>>
    ELSE IF Len(texts) = 1 THEN texts[1]
    ELSE texts[1] \o <<sep>> \o Join(Tail(texts), sep)
Member(key, value) == Q(key) \o <<":">> \o value
Obj(members) == <<"{">> \o Join(members, ",") \o <<"}">>
Arr(elems) == <<"[">> \o Join(elems, ",") \o <<"]">>

\* {"__dict__": {"chat_name": name, "chat_response": response}}
ChatHeader(name, response) ==
    Obj(<<Member("__dict__",
                 Obj(<<Member("chat_name", name), Member("chat_response", response)>>))>>)
\* {"chat_message": {"__dict__": {"content": content}}}
ChatResponse(content) ==
    Obj(<<Member("chat_message",
                 Obj(<<Member("__dict__", Obj(<<Member("content", content)>>))>>))>>)
ChatEntry(name, content) == ChatHeader(name, ChatResponse(content))

EntryTexts == <<
    ChatEntry(Q("summary"), QWords(<<"Strong", "candidate.">>)),
    ChatEntry(Q("applicant_lookup_agent"), Q("Found.")),
    ChatEntry(Q("other"), Q("Ignored.")),
    ChatEntry(Q("summary"), QWords(<<>>)),
    Q("x"),
    Obj(<<>>),
    ChatHeader(Q("summary"), Q("x")),
    ChatHeader(Q("other"), Q("x")),
    ChatEntry(Q("summary"), <<"7">>),
    Obj(<<Member("__dict__", Obj(<<Member("chat_name", Q("summary"))>>))>>),
    ChatEntry(Q("summary"), <<"null">>),
    Obj(<<Member("__dict__", <<"7">>)>>),
    ChatHeader(Q("summary"), Obj(<<Member("chat_message", <<"7">>)>>))
>>

EntryChoices == UNION {[1..n -> 1..Len(EntryTexts)] : n \in 0..MaxEntries}
ListText(choice) == Arr([i \in 1..Len(choice) |-> EntryTexts[choice[i]]])
ListTexts == {ListText(choice) : choice \in EntryChoices}

\* JSON that is no list.
NonListTexts == {
    Obj(<<>>), Obj(<<Member("k", <<"7">>)>>), <<"7">>, <<"null">>, <<"true">>,
    Q("x"), QWords(<<>>)
}

\* Text that is no JSON.
MalformedTexts == {
    <<>>, <<"not", "json">>, <<"[">>, <<"\"", "x">>,
    <<"[">> \o EntryTexts[1],
    Arr(<<EntryTexts[1]>>) \o <<"x">>,
    <<"[">> \o EntryTexts[1] \o <<",", "]">>,
    <<"{", "\"", "k", "\"", "7", "}">>
}

Payloads == ListTexts \cup NonListTexts \cup MalformedTexts

NAME_A == <<"A">>
NAME_B == <<"B">>

\* ------------------------------------------- the extractor, run on inputs
\* A result record {"Submission Name": name, "Analysis": payload}, and one
\* that has no "Analysis" key.
Record(name, payload) == ("Submission Name" :> name) @@ ("Analysis" :> payload)
RecordWithoutAnalysis(name) == ("Submission Name" :> name)

ExtractInputs ==
    {Record(NAME_A, p) : p \in Payloads} \cup {RecordWithoutAnalysis(NAME_A)}

ExInit ==
    /\ ex_analysis \in ExtractInputs
    /\ ex_result = TextReturned(<<>>)
    /\ ex_pc = "input"
    /\ BpOff
    /\ CcOff
    /\ TabOff
    /\ AppOff

\* The call extract_analysis_content(analysis).
Extract ==
    /\ ex_pc = "input"
    /\ ex_result' = extract_outcome(ex_analysis)
    /\ ex_pc' = "done"
    /\ UNCHANGED <<ex_analysis, bp_vars, cc_vars, tab_vars, app_vars>>

SpecExtract == ExInit /\ [][Extract]_vars

\* -------------------------------------------------- build_comparison_prompt
MaxRecords == 2

PREAMBLE ==
    <<"Please provide a comparative analysis of the following submission analyses:",
      "\n", "\n">>
SUFFIX ==
    <<"Please provide an objective comparative analysis of the submissions based on their qualifications, experience, and skills. Create a table comparing key aspects across all submissions. DO NOT rank the submissions or suggest which one is better than others. The analysis should only highlight differences and similarities in an objective manner.">>
UNNAMED == <<"Unnamed Submission">>

\* analysis.get("Submission Name", "Unnamed Submission")
submission_name(analysis) ==
    IF "Submission Name" \in DOMAIN analysis THEN analysis["Submission Name"] ELSE UNNAMED

\* The two `prompt +=` of one loop iteration.
append_block(prompt, analysis) ==
    prompt \o <<"Submission: ">> \o submission_name(analysis) \o <<"\n">>
           \o <<"Analysis: ">> \o extract_analysis_content(analysis) \o <<"\n", "\n">>

\* Mutation: the loop walks the list from its end.
RECURSIVE for_analysis_reversed(_, _, _)
for_analysis_reversed(analyses, i, prompt) ==
    IF i > Len(analyses) THEN prompt
    ELSE for_analysis_reversed(analyses, i + 1,
                               append_block(prompt, analyses[Len(analyses) + 1 - i]))

\* `for analysis in analyses`, from record i on.
RECURSIVE for_analysis(_, _, _)
for_analysis(analyses, i, prompt) ==
    IF i > Len(analyses) THEN prompt
    ELSE for_analysis(analyses, i + 1, append_block(prompt, analyses[i]))

build_comparison_prompt(analyses) == for_analysis(analyses, 1, PREAMBLE) \o SUFFIX

\* The records the builder is run on.
PromptPayloads == {
    ListText(<<1>>), ListText(<<2, 1>>), ListText(<<3>>), <<"not", "json">>
}
PromptRecords ==
    {Record(n, p) : n \in {NAME_A, NAME_B}, p \in PromptPayloads}
    \cup {("Analysis" :> p) : p \in PromptPayloads}
    \cup {RecordWithoutAnalysis(NAME_A), RecordWithoutAnalysis(NAME_B)}
PromptInputs == UNION {[1..n -> PromptRecords] : n \in 0..MaxRecords}

\* The list with the records at positions i and j exchanged.
Swapped(list, i, j) ==
    [k \in 1..Len(list) |-> IF k = i THEN list[j] ELSE IF k = j THEN list[i] ELSE list[k]]

BpInit ==
    /\ bp_analyses \in PromptInputs
    /\ bp_prompt = <<>>
    /\ bp_swap = <<0, 0>>
    /\ bp_swapped = <<>>
    /\ bp_pc = "input"
    /\ ExOff
    /\ CcOff
    /\ TabOff
    /\ AppOff

\* The call build_comparison_prompt(analyses).
BuildPrompt ==
    /\ bp_pc = "input"
    /\ bp_prompt' = build_comparison_prompt(bp_analyses)
    /\ bp_pc' = "built"
    /\ UNCHANGED <<bp_analyses, bp_swap, bp_swapped, ex_vars, cc_vars, tab_vars, app_vars>>

\* A second call, on the list with two of its records exchanged.
BuildSwapped ==
    /\ bp_pc = "built"
    /\ \E i, j \in 1..Len(bp_analyses) :
        /\ i < j
        /\ bp_swap' = <<i, j>>
        /\ bp_swapped' = build_comparison_prompt(Swapped(bp_analyses, i, j))
    /\ bp_pc' = "swapped"
    /\ UNCHANGED <<bp_analyses, bp_prompt, ex_vars, cc_vars, tab_vars, app_vars>>

BpNext == BuildPrompt \/ BuildSwapped
SpecPrompt == BpInit /\ [][BpNext]_vars

\* ------------------------------------------------- the session: user, main
Range(seq) == {seq[i] : i \in 1..Len(seq)}

\* An uploaded file; several files of one upload may carry the same name.
File(name) == [name |-> name]
Files == {File(NAME_A), File(NAME_B)}
Uploads == UNION {[1..n -> Files] : n \in 0..MaxFiles}

analysis_completed == GetOr(session_state, "analysis_completed", FALSE)

\* Mutation: the check looks at the key alone.
credentials_configured_key_only == AZURE_OPENAI_KEY # ""

\* `if not AZURE_OPENAI_KEY or not AZURE_OPENAI_ENDPOINT` is the negation.
credentials_configured == AZURE_OPENAI_KEY # "" /\ AZURE_OPENAI_ENDPOINT # ""

\* A script run starts: Streamlit runs main() from the top and renders anew.
GenerationButtons == {"regenerate_summary", "generate_questions", "regenerate_questions"}
StartRun(button) ==
    /\ click' = button
    /\ request' = IF button \in GenerationButtons THEN button ELSE "none"
    /\ pc' = "main"
    /\ screen' = BlankScreen
    /\ events' = <<>>

\* st.rerun(): the run at hand ends and a new one starts, no button pressed.
Rerun ==
    /\ click' = "none"
    /\ pc' = "main"
    /\ screen' = BlankScreen
    /\ events' = <<>>
    /\ UNCHANGED request

\* The script run ends: the page stands, no button is pressed any more.
EndRun ==
    /\ pc' = "idle"
    /\ click' = "none"

\* The user acts between script runs (and the model stops at its bounds).
CanInteract == pc = "idle" /\ chat_calls < MaxChatCalls

\* The user changes the uploaded files.
UserUploads ==
    /\ CanInteract
    /\ \E files \in Uploads :
        /\ files # uploaded_files
        /\ uploaded_files' = files
    /\ StartRun("none")
    /\ UNCHANGED <<pure_vars, config_vars, selected_submission, session_state, proc, log_vars>>

\* The user presses one of the buttons on the page.
UserClicks ==
    /\ CanInteract
    /\ \E button \in screen.buttons :
        /\ (button = "analyze" /\ uploaded_files # <<>> /\ ~analysis_completed)
              => batch < MaxBatches
        /\ StartRun(button)
    /\ UNCHANGED <<pure_vars, config_vars, widget_vars, session_state, proc, log_vars>>

\* The user picks another submission in the follow-up selectbox.
UserSelects ==
    /\ CanInteract
    /\ \E name \in Range(screen.options) :
        /\ name # selected_submission
        /\ selected_submission' = name
    /\ StartRun("none")
    /\ UNCHANGED <<pure_vars, config_vars, uploaded_files, session_state, proc, log_vars>>

\* Any other interaction (a feedback button, a tab): the page is rendered again.
UserRerenders ==
    /\ CanInteract
    /\ StartRun("none")
    /\ UNCHANGED <<pure_vars, config_vars, widget_vars, session_state, proc, log_vars>>

\* render_sidebar, "Clear Results" pressed.
SidebarClearResults ==
    /\ pc = "main"
    /\ click = "clear" /\ analysis_completed
    /\ session_state' = Put(Put(Put(session_state, "analysis_completed", FALSE),
                                "results", <<>>), "thread_ids", <<>>)
    /\ Rerun
    /\ UNCHANGED <<pure_vars, config_vars, widget_vars, proc, log_vars>>

SidebarDone == pc = "main" /\ ~(click = "clear" /\ analysis_completed)

\* A run that shows no results ends here; the selectbox is not rendered and
\* Streamlit drops its value.
EndWithoutResults(message) ==
    /\ EndRun
    /\ screen' = [screen EXCEPT !.buttons = SidebarButtons(session_state),
                                !.info = @ \cup message]
    /\ selected_submission' = <<>>

\* main: `if not uploaded_files`.
MainNoFiles ==
    /\ SidebarDone
    /\ uploaded_files = <<>>
    /\ EndWithoutResults({"Please upload one or more submission files"})
    /\ UNCHANGED <<pure_vars, config_vars, uploaded_files, session_state, request, proc, events, log_vars>>

\* main: files are uploaded, nothing to process and nothing to show.
MainWaiting ==
    /\ SidebarDone
    /\ uploaded_files # <<>>
    /\ ~(click = "analyze" \/ analysis_completed)
    /\ EndWithoutResults({})
    /\ UNCHANGED <<pure_vars, config_vars, uploaded_files, session_state, request, proc, events, log_vars>>

\* main: the analysis is completed; the stored results are displayed.
MainDisplay ==
    /\ SidebarDone
    /\ uploaded_files # <<>>
    /\ analysis_completed
    /\ screen' = [screen EXCEPT !.buttons = SidebarButtons(session_state)]
    /\ pc' = "display"
    /\ UNCHANGED <<pure_vars, config_vars, widget_vars, session_state, click, request, proc, events, log_vars>>

\* ------------------------------------------------------ process_submissions
\* progress = (i + 1) / len(uploaded_files), kept as numerator and denominator.
progress(i, n) == [type |-> "progress", num |-> i + 1, den |-> n]

\* The head of one loop iteration, up to the backend call that it awaits:
\* the progress report and APIClient.create_chat(text, "submission_<i+1>").
loop_head(i, files) ==
    <<progress(i, Len(files)),
      [type |-> "create_chat", doc |-> i + 1, name |-> files[i + 1].name,
       identifier |-> i + 1]>>

\* What the backend may answer to the call for document doc of batch b: an
\* error or a result.  The backend opens a new thread for every call.
THREAD(b, doc) == <<"thread", ToString(b), ToString(doc)>>
MESSAGE(b, doc) == <<"message", ToString(b), ToString(doc)>>
Responses(b, doc) == {
    ("error" :> <<"backend unavailable">>),
    ("agent_response" :> ListText(<<1>>)) @@ ("thread_id" :> THREAD(b, doc))
        @@ ("message_id" :> MESSAGE(b, doc))
}

\* "Store result"
result_of(file, response) ==
    ("Submission Name" :> file.name)
    @@ ("Analysis" :> GetOr(response, "agent_response", <<"Analysis failed">>))
    @@ ("Thread ID" :> GetOr(response, "thread_id", <<>>))
    @@ ("Message ID" :> GetOr(response, "message_id", <<>>))

\* The results after the response to one file: an error is reported and the
\* loop continues with the next file.
results_after(results, file, response) ==
    IF "error" \in DOMAIN response THEN results
    ELSE Append(results, result_of(file, response))

\* Mutation: an error response ends the loop (break for continue).
next_file_break_on_error(i, n, response) ==
    IF "error" \in DOMAIN response THEN n ELSE i + 1

\* The index of the file the loop turns to after a response.
next_file(i, n, response) == i + 1

\* "Reset summary state when processing new submissions"
reset_summary(state) ==
    IF "summary_generated" \in DOMAIN state
    THEN Del(Put(state, "summary_generated", FALSE), "summary_content")
    ELSE state

\* app.py: the results of process_submissions are stored.
store_results(state, results) ==
    Put(Put(Put(state, "results", results),
            "thread_ids", [k \in 1..Len(results) |-> GetOr(results[k], "Thread ID", <<>>)]),
        "analysis_completed", TRUE)

NoSummaryOrigin == [batch |-> 0, call |-> 0]
NoOrigin == [summary |-> NoSummaryOrigin, followups |-> <<>>]

\* Mutation: the button alone starts the processing, completed or not.
MainProcess_when_completed ==
    /\ SidebarDone
    /\ uploaded_files # <<>>
    /\ click = "analyze"
    /\ screen' = [screen EXCEPT !.buttons = SidebarButtons(session_state)]
    /\ proc' = [i |-> 0, results |-> <<>>]
    /\ events' = <<[type |-> "progress", num |-> 0, den |-> Len(uploaded_files)]>>
                    \o loop_head(0, uploaded_files)
    /\ batch' = IF batch < MaxBatches THEN batch + 1 ELSE batch
    /\ pc' = "create_chat"
    /\ UNCHANGED <<pure_vars, config_vars, widget_vars, session_state, click, request, chat_calls, origin>>

\* main: "Analyze Submissions" pressed and no analysis completed yet:
\* process_submissions starts and runs up to its first backend call.
MainProcess ==
    /\ SidebarDone
    /\ uploaded_files # <<>>
    /\ click = "analyze" /\ ~analysis_completed
    /\ screen' = [screen EXCEPT !.buttons = SidebarButtons(session_state)]
    /\ proc' = [i |-> 0, results |-> <<>>]
    /\ events' = <<[type |-> "progress", num |-> 0, den |-> Len(uploaded_files)]>>
                    \o loop_head(0, uploaded_files)
    /\ batch' = batch + 1
    /\ pc' = "create_chat"
    /\ UNCHANGED <<pure_vars, config_vars, widget_vars, session_state, click, request, chat_calls, origin>>

\* The backend answers; the loop goes on to the next file's call or, after
\* the last file, process_submissions returns and main stores the results.
CreateChatReturns ==
    /\ pc = "create_chat"
    /\ \E response \in Responses(batch, proc.i + 1) :
        LET n == Len(uploaded_files)
            file == uploaded_files[proc.i + 1]
            results == results_after(proc.results, file, response)
            next == next_file(proc.i, n, response)
            answered == Append(events, [type |-> "response", doc |-> proc.i + 1,
                                        response |-> response])
        IN  /\ screen' = IF "error" \in DOMAIN response
                         THEN [screen EXCEPT !.errors = @ \cup {"Error analyzing"}]
                         ELSE screen
            /\ IF next < n
               THEN /\ proc' = [i |-> next, results |-> results]
                    /\ events' = answered \o loop_head(next, uploaded_files)
                    /\ pc' = "create_chat"
                    /\ UNCHANGED <<session_state, origin>>
               ELSE /\ proc' = NoProc
                    /\ events' = answered
                    /\ session_state' = store_results(reset_summary(session_state), results)
                    /\ origin' = IF "summary_generated" \in DOMAIN session_state
                                 THEN [origin EXCEPT !.summary = NoSummaryOrigin]
                                 ELSE origin
                    /\ pc' = "display"
    /\ UNCHANGED <<pure_vars, config_vars, widget_vars, click, request, chat_calls, batch>>

\* ------------------------------------------------ the chat-completion client
\* What requests.post(...) comes to: it raises (no connection, a timeout),
\* or it returns a response with a status code and a body.
PostRaises(what) == [raises |-> TRUE, status |-> 0, body |-> <<what>>]
HttpResponse(status, body) == [raises |-> FALSE, status |-> status, body |-> body]

\* response.raise_for_status(): HTTPError on a 4xx or 5xx status.
raise_for_status(response) ==
    IF response.status >= 400 THEN Raised ELSE Returned(PyNone)

\* response.json(): the decoded body, or JSONDecodeError.
decoded_or_raise(decoded) == IF decoded.ok THEN Returned(decoded.val) ELSE Raised
response_json(response) == decoded_or_raise(json_loads(response.body))

\* `key in obj`: a key of a dict, an item of a list, a part of a str;
\* TypeError for an object that is not iterable.
contains(obj, key) ==
    CASE obj.k = "dict" -> Returned(PyBool(<<key>> \in DOMAIN obj.v))
      [] obj.k = "list" -> Returned(PyBool(\E i \in 1..Len(obj.v) : obj.v[i] = S(key)))
      [] obj.k = "str" -> Returned(PyBool(\E i \in 1..Len(obj.v) : obj.v[i] = key))
      [] OTHER -> Raised

\* len(obj): TypeError for an object without a length.
len(obj) ==
    CASE obj.k = "list" -> Returned(PyInt(Len(obj.v)))
      [] obj.k = "str" -> Returned(PyInt(Len(obj.v)))
      [] obj.k = "dict" -> Returned(PyInt(Cardinality(DOMAIN obj.v)))
      [] OTHER -> Raised

\* obj[key], key a str: KeyError for a dict without the key, TypeError for
\* every other object.
subscript(obj, key) ==
    IF obj.k = "dict" /\ <<key>> \in DOMAIN obj.v THEN Returned(obj.v[<<key>>])
    ELSE Raised

\* obj[0]: IndexError when empty, KeyError for a dict (decoded keys are
\* strings), TypeError for an object that has no items.
first(obj) ==
    CASE obj.k = "list" /\ obj.v # <<>> -> Returned(obj.v[1])
      [] obj.k = "str" /\ obj.v # <<>> -> Returned(S(obj.v[1]))
      [] OTHER -> Raised

\* response_data["choices"][0]["message"]["content"]
first_choice_content(response_data) ==
    LET choices == subscript(response_data, "choices") IN
    IF choices.exc THEN Raised
    ELSE LET choice == first(choices.val) IN
    IF choice.exc THEN Raised
    ELSE LET message == subscript(choice.val, "message") IN
    IF message.exc THEN Raised
    ELSE subscript(message.val, "content")

\* `if "choices" in response_data and len(response_data["choices"]) > 0:`
\* with its two branches.
choices_branch(response_data) ==
    LET has_choices == contains(response_data, "choices") IN
    IF has_choices.exc THEN Raised
    ELSE IF ~has_choices.val.v THEN Returned(PyNone)
    ELSE LET choices == subscript(response_data, "choices") IN
    IF choices.exc THEN Raised
    ELSE LET n == len(choices.val) IN
    IF n.exc THEN Raised
    ELSE IF n.val.v > 0 THEN first_choice_content(response_data)
    ELSE Returned(PyNone)

\* The try block from response.json() on.
after_status(response_data) ==
    IF response_data.exc THEN Raised ELSE choices_branch(response_data.val)

\* The try block of get_chat_completion: what it returns, or an exception.
try_post(reply) ==
    IF reply.raises THEN Raised
    ELSE IF raise_for_status(reply).exc THEN Raised
    ELSE after_status(response_json(reply))

\* Mutation: the handler reports the error and raises it again.
except_post_reraise == Raised

\* `except Exception as e:` reports the error and returns None.
except_post == Returned(PyNone)

\* What the handler makes of the try block's outcome.
handled(body) == IF body.exc THEN except_post ELSE body

\* AzureOpenAIClient.get_chat_completion: the content, or None.
get_chat_completion(reply) == handled(try_post(reply))

FAILED_SUMMARY == <<"Failed to generate comparative analysis due to an error.">>
FAILED_QUESTIONS == <<"Failed to generate follow-up questions due to an error.">>

\* `return result if result else <sentinel>`; an exception of the call
\* would propagate.
or_sentinel(result, sentinel) ==
    IF result.exc THEN Raised
    ELSE IF truthy(result.val) THEN result ELSE Returned(PyStr(sentinel))

summarize_submission_analyses(reply) ==
    or_sentinel(get_chat_completion(reply), FAILED_SUMMARY)
generate_followup_questions(reply) ==
    or_sentinel(get_chat_completion(reply), FAILED_QUESTIONS)

\* The bodies the endpoint may answer with.
COMPLETION == <<"completion">>
Choice(content) ==
    Obj(<<Member("message",
                 Obj(<<Member("role", Q("assistant")), Member("content", content)>>))>>)
CompletionBody(choices) ==
    Obj(<<Member("choices", choices), Member("model", Q("gpt"))>>)

\* What a POST of the session may come to: content, empty content, a
\* response without choices, a transport error.
ChatOutcomes == {
    HttpResponse(200, CompletionBody(Arr(<<Choice(QWords(COMPLETION))>>))),
    HttpResponse(200, CompletionBody(Arr(<<Choice(QWords(<<>>))>>))),
    HttpResponse(200, CompletionBody(Arr(<<>>))),
    PostRaises("ConnectionError")
}

\* What the session gets from the two calls, per outcome of the POST.
summary_of ==
    [outcome \in ChatOutcomes |-> summarize_submission_analyses(outcome).val.v]
questions_of ==
    [outcome \in ChatOutcomes |-> generate_followup_questions(outcome).val.v]

\* ------------------------------------------- the chat client, run on replies
ChatBodies == {
    CompletionBody(Arr(<<Choice(QWords(COMPLETION))>>)),
    CompletionBody(Arr(<<Choice(QWords(COMPLETION)), Choice(Q("second"))>>)),
    CompletionBody(Arr(<<Choice(QWords(<<>>))>>)),
    CompletionBody(Arr(<<Choice(<<"null">>)>>)),
    CompletionBody(Arr(<<>>)),
    CompletionBody(Arr(<<Obj(<<>>)>>)),
    CompletionBody(Arr(<<Obj(<<Member("message", Obj(<<>>))>>)>>)),
    CompletionBody(Arr(<<Obj(<<Member("message", Q("text"))>>)>>)),
    CompletionBody(Arr(<<Q("text")>>)),
    CompletionBody(<<"7">>),
    CompletionBody(<<"null">>),
    CompletionBody(Q("text")),
    CompletionBody(Obj(<<Member("0", Choice(QWords(COMPLETION)))>>)),
    Obj(<<>>),
    Obj(<<Member("error", Obj(<<Member("code", Q("429"))>>))>>),
    Arr(<<>>),
    Arr(<<Q("choices")>>),
    Q("choices"),
    <<"null">>,
    <<"7">>,
    <<>>,
    <<"<html>">>,
    <<"{">> \o Q("choices")
}
ChatStatuses == {200, 401, 429, 500}
ChatReplies ==
    {PostRaises(what) : what \in {"ConnectionError", "Timeout"}}
    \cup {HttpResponse(status, body) : status \in ChatStatuses, body \in ChatBodies}

CcInit ==
    /\ cc \in {[reply |-> reply, pc |-> "input"] : reply \in ChatReplies}
    /\ ExOff
    /\ BpOff
    /\ TabOff
    /\ AppOff

\* The three calls, the POST of each coming to cc.reply.
ChatCalls ==
    /\ cc.pc = "input"
    /\ cc' = [reply |-> cc.reply,
              completion |-> get_chat_completion(cc.reply),
              summary |-> summarize_submission_analyses(cc.reply),
              questions |-> generate_followup_questions(cc.reply),
              pc |-> "done"]
    /\ UNCHANGED <<ex_vars, bp_vars, tab_vars, app_vars>>

SpecChat == CcInit /\ [][ChatCalls]_vars

\* ------------------------------------ display_results: a submission's tab
\* What a tab shows: the st.markdown bodies in order and whether st.error
\* was called; exc when the rendering raised.
TabShows(markdown, error) == [exc |-> FALSE, markdown |-> markdown, error |-> error]
TabRaised(markdown) == [exc |-> TRUE, markdown |-> markdown, error |-> TRUE]

\* `if chat_name in ["summary"]`
TabAllowList == {S("summary")}

\* One iteration of the tab's loop: the st.markdown calls it makes, or the
\* exception it raises.  st.markdown shows the str() of its body.
tab_loop_body(header) ==
    LET chat_dict == get(header, "__dict__", EmptyDict) IN
    IF chat_dict.exc THEN Raised
    ELSE LET chat_name == get(chat_dict.val, "chat_name", EmptyStr) IN
    IF chat_name.exc THEN Raised
    ELSE IF chat_name.val \notin TabAllowList THEN Returned(<<>>)
    ELSE LET chat_response == get(chat_dict.val, "chat_response", EmptyDict) IN
    IF chat_response.exc THEN Raised
    ELSE LET chat_message == get(chat_response.val, "chat_message", EmptyDict) IN
    IF chat_message.exc THEN Raised
    ELSE LET inner == get(chat_message.val, "__dict__", EmptyDict) IN
    IF inner.exc THEN Raised
    ELSE LET content == get(inner.val, "content", EmptyStr) IN
    IF content.exc THEN Raised
    ELSE IF ~truthy(content.val) THEN Returned(<<>>)
    ELSE Returned(<<content.val>>)

\* The tab's loop from item i on; what was shown stays on the page when an
\* iteration raises.
RECURSIVE tab_for_header(_, _, _)
tab_for_header(items, i, shown) ==
    IF i > Len(items) THEN [exc |-> FALSE, val |-> shown]
    ELSE LET step == tab_loop_body(items[i]) IN
         IF step.exc THEN [exc |-> TRUE, val |-> shown]
         ELSE tab_for_header(items, i + 1, shown \o step.val)

\* The try block of the tab.
tab_try(result) ==
    IF ~HasAnalysis(result) THEN [exc |-> TRUE, val |-> <<>>]
    ELSE LET analysis_data == json_loads(result["Analysis"]) IN
         IF ~analysis_data.ok THEN [exc |-> TRUE, val |-> <<>>]
         ELSE LET items == iterate(analysis_data.val) IN
              IF items.exc THEN [exc |-> TRUE, val |-> <<>>]
              ELSE tab_for_header(items.val, 1, <<>>)

\* `except Exception as e:` st.error, then st.markdown(result["Analysis"]).
tab_except(result, shown) ==
    IF HasAnalysis(result)
    THEN TabShows(Append(shown, PyStr(result["Analysis"])), TRUE)
    ELSE TabRaised(shown)

\* "Parse and display the analysis"
display_tab(result) ==
    LET body == tab_try(result) IN
    IF body.exc THEN tab_except(result, body.val)
    ELSE TabShows(body.val, FALSE)

\* The records a tab is rendered for: process_submissions gives every
\* record an "Analysis".
TabInputs == {Record(NAME_A, payload) : payload \in Payloads}

TabInit ==
    /\ tab \in {[result |-> result, pc |-> "input"] : result \in TabInputs}
    /\ ExOff
    /\ BpOff
    /\ CcOff
    /\ AppOff

\* The tab of the record is rendered.
RenderTab ==
    /\ tab.pc = "input"
    /\ tab' = [result |-> tab.result, shown |-> display_tab(tab.result), pc |-> "done"]
    /\ UNCHANGED <<ex_vars, bp_vars, cc_vars, app_vars>>

SpecTab == TabInit /\ [][RenderTab]_vars

\* ------------------------------------------------------------ display_results
CREDENTIALS_WARNING == <<"Azure OpenAI API credentials not configured. Please add them to your .env file to enable the comparative analysis feature.">>
CREDENTIALS_ERROR == "Azure OpenAI API credentials not configured. Please add them to your .env file."

results == GetOr(session_state, "results", <<>>)
submission_options == [k \in 1..Len(results) |-> results[k]["Submission Name"]]

\* Mutation: the summary is generated on every render.
summary_needed_every_render(state) == TRUE

\* "Check if we need to automatically generate a new summary"
summary_needed(state) ==
    ~GetOr(state, "summary_generated", FALSE) \/ "summary_content" \notin DOMAIN state

with_summary(state, generated, content) ==
    Put(Put(state, "summary_generated", generated), "summary_content", content)

\* display_results up to the summary tab, or up to the chat-completion call
\* of the automatic summary.
DisplayResults ==
    /\ pc = "display"
    /\ IF results = <<>>
       THEN /\ EndRun
            /\ selected_submission' = <<>>
            /\ UNCHANGED <<session_state, chat_calls, origin>>
       ELSE /\ UNCHANGED <<selected_submission, click>>
            /\ IF ~summary_needed(session_state)
               THEN /\ pc' = "summary_tab"
                    /\ UNCHANGED <<session_state, chat_calls, origin>>
               ELSE IF ~credentials_configured
               THEN /\ session_state' = with_summary(session_state, FALSE, CREDENTIALS_WARNING)
                    /\ origin' = [origin EXCEPT !.summary = [batch |-> batch, call |-> 0]]
                    /\ pc' = "summary_tab"
                    /\ UNCHANGED chat_calls
               ELSE /\ chat_calls' = chat_calls + 1
                    /\ pc' = "auto_summary"
                    /\ UNCHANGED <<session_state, origin>>
    /\ UNCHANGED <<pure_vars, config_vars, uploaded_files, request, proc, screen,
                   events, batch>>

\* The chat-completion call of the automatic summary returns.
AutoSummaryReturns ==
    /\ pc = "auto_summary"
    /\ \E outcome \in ChatOutcomes :
        session_state' = with_summary(session_state, TRUE,
                            summary_of[outcome])
    /\ origin' = [origin EXCEPT !.summary = [batch |-> batch, call |-> chat_calls]]
    /\ pc' = "summary_tab"
    /\ UNCHANGED <<pure_vars, config_vars, widget_vars, click, request, proc, screen,
                   events, chat_calls, batch>>

\* The summary tab: the cached summary and the "Regenerate Analysis" button.
SummaryTab ==
    /\ pc = "summary_tab"
    /\ LET shown == [screen EXCEPT !.summary = GetOr(session_state, "summary_content", <<>>),
                                   !.buttons = @ \cup {"regenerate_summary"}]
       IN  IF click # "regenerate_summary"
           THEN /\ screen' = shown
                /\ pc' = "followup_tab"
                /\ UNCHANGED chat_calls
           ELSE IF ~credentials_configured
           THEN /\ screen' = [shown EXCEPT !.errors = @ \cup {CREDENTIALS_ERROR}]
                /\ pc' = "followup_tab"
                /\ UNCHANGED chat_calls
           ELSE /\ screen' = shown
                /\ chat_calls' = chat_calls + 1
                /\ pc' = "regenerate_summary"
    /\ UNCHANGED <<pure_vars, config_vars, widget_vars, session_state, click, request, proc,
                   events, batch, origin>>

\* The call of "Regenerate Analysis" returns: the summary is stored and the
\* script is run again.
RegenerateSummaryReturns ==
    /\ pc = "regenerate_summary"
    /\ \E outcome \in ChatOutcomes :
        session_state' = with_summary(session_state, TRUE,
                            summary_of[outcome])
    /\ origin' = [origin EXCEPT !.summary = [batch |-> batch, call |-> chat_calls]]
    /\ Rerun
    /\ UNCHANGED <<pure_vars, config_vars, widget_vars, proc, chat_calls, batch>>

\* The selectbox: the chosen option, the first one when the choice is not
\* (or no longer) among the options.
selectbox(options, chosen) ==
    IF chosen \in Range(options) THEN chosen ELSE options[1]

\* "Initialize session state for follow-up questions if not exists"
with_followups(state) ==
    IF "followup_questions" \in DOMAIN state THEN state
    ELSE Put(state, "followup_questions", <<>>)

\* The follow-up tab, up to the end of the run or to the chat-completion call.
FollowupTab ==
    /\ pc = "followup_tab"
    /\ LET state == with_followups(session_state)
           selected == selectbox(submission_options, selected_submission)
           shown == [screen EXCEPT !.options = submission_options,
                                   !.buttons = @ \cup {"generate_questions"}]
       IN  /\ selected_submission' = selected
           /\ IF click = "generate_questions"
              THEN IF ~credentials_configured
                   THEN /\ screen' = [shown EXCEPT !.errors = @ \cup {CREDENTIALS_ERROR}]
                        /\ session_state' = state
                        /\ EndRun
                        /\ UNCHANGED <<chat_calls, origin, events>>
                   ELSE /\ screen' = shown
                        /\ session_state' = state
                        /\ chat_calls' = chat_calls + 1
                        /\ pc' = "generate_questions"
                        /\ UNCHANGED <<click, origin, events>>
              ELSE IF selected \in DOMAIN state["followup_questions"]
              THEN IF click = "regenerate_questions"
                   THEN /\ session_state' = Put(state, "followup_questions",
                                                Del(state["followup_questions"], selected))
                        /\ origin' = [origin EXCEPT !.followups = Del(@, selected)]
                        /\ Rerun
                        /\ UNCHANGED chat_calls
                   ELSE /\ screen' = [shown EXCEPT
                                        !.questions = state["followup_questions"][selected],
                                        !.buttons = @ \cup {"regenerate_questions"}]
                        /\ session_state' = state
                        /\ EndRun
                        /\ UNCHANGED <<chat_calls, origin, events>>
              ELSE /\ screen' = [shown EXCEPT !.info = @ \cup {"Click the 'Generate Follow-up Questions' button"}]
                   /\ session_state' = state
                   /\ EndRun
                   /\ UNCHANGED <<chat_calls, origin, events>>
    /\ UNCHANGED <<pure_vars, config_vars, uploaded_files, request, proc, batch>>

\* The call of "Generate Follow-up Questions" returns: the questions are
\* stored under the submission's name and shown.
GenerateQuestionsReturns ==
    /\ pc = "generate_questions"
    /\ \E outcome \in ChatOutcomes :
        LET questions == questions_of[outcome] IN
        /\ session_state' = Put(session_state, "followup_questions",
                                Put(session_state["followup_questions"],
                                    selected_submission, questions))
        /\ screen' = [screen EXCEPT !.questions = questions]
    /\ origin' = [origin EXCEPT !.followups =
                    Put(@, selected_submission, batch)]
    /\ EndRun
    /\ UNCHANGED <<pure_vars, config_vars, widget_vars, request, proc, events, chat_calls, batch>>

\* ------------------------------------------------------------- the session
Init ==
    /\ \E key, endpoint \in {"", "configured"} : AppInitWith(key, endpoint)
    /\ ExOff
    /\ BpOff
    /\ CcOff
    /\ TabOff

Next ==
    \/ UserUploads
    \/ UserClicks
    \/ UserSelects
    \/ UserRerenders
    \/ SidebarClearResults
    \/ MainNoFiles
    \/ MainWaiting
    \/ MainDisplay
    \/ MainProcess
    \/ CreateChatReturns
    \/ DisplayResults
    \/ AutoSummaryReturns
    \/ SummaryTab
    \/ RegenerateSummaryReturns
    \/ FollowupTab
    \/ GenerateQuestionsReturns

Spec == Init /\ [][Next]_vars

\* ----------------------------------------------- claims on the extractor
\* What the claims call an entry's chat name and nested content, read off
\* the decoded payload.
IsObj(x) == x.k = "dict"
FieldOr(obj, key, default) ==
    IF <<key>> \in DOMAIN obj.v THEN obj.v[<<key>>] ELSE default
ChatDictOf(e) == FieldOr(e, "__dict__", EmptyDict)
ChatNameOf(e) == FieldOr(ChatDictOf(e), "chat_name", EmptyStr)
ChatResponseOf(e) == FieldOr(ChatDictOf(e), "chat_response", EmptyDict)
ChatMessageOf(e) == FieldOr(ChatResponseOf(e), "chat_message", EmptyDict)
InnerDictOf(e) == FieldOr(ChatMessageOf(e), "__dict__", EmptyDict)
ContentOf(e) == FieldOr(InnerDictOf(e), "content", EmptyStr)

Named(e, names) == IsObj(e) /\ IsObj(ChatDictOf(e)) /\ ChatNameOf(e) \in names

\* A wrong type on the way to the content: the entry is no object, or a
\* nested field that is read is none, or the content is no string.
WrongType(e, names) ==
    \/ ~IsObj(e)
    \/ ~IsObj(ChatDictOf(e))
    \/ /\ Named(e, names)
       /\ \/ ~IsObj(ChatResponseOf(e))
          \/ ~IsObj(ChatMessageOf(e))
          \/ ~IsObj(InnerDictOf(e))
          \/ ContentOf(e).k # "str" /\ truthy(ContentOf(e))

\* The entry carries non-empty text under one of the names.
HasContent(e, names) ==
    /\ Named(e, names)
    /\ ~WrongType(e, names)
    /\ ContentOf(e).k = "str"
    /\ ContentOf(e).v # <<>>

\* The contents of the entries under `names`, in input order, a newline
\* after each; entries without such content add nothing.
RECURSIVE ContentsOf(_, _)
ContentsOf(entries, names) ==
    IF entries = <<>> THEN <<>>
    ELSE (IF HasContent(Head(entries), names)
            THEN ContentOf(Head(entries)).v \o NEWLINE ELSE <<>>)
         \o ContentsOf(Tail(entries), names)

Without(entries, bad(_)) == SelectSeq(entries, LAMBDA e : ~bad(e))

ExDone == ex_pc = "done"
ExPayload == ex_analysis["Analysis"]
ExParsed == json_loads(ExPayload)
ExIsList == HasAnalysis(ex_analysis) /\ ExParsed.ok /\ ExParsed.val.k = "list"
ExEntries == ExParsed.val.v
BothNames == {S("summary"), S("applicant_lookup_agent")}
SummaryOnly == {S("summary")}
ExMismatch(e) == WrongType(e, BothNames)
ExSomeMismatch == \E i \in 1..Len(ExEntries) : ExMismatch(ExEntries[i])
OrRaw(text) == IF text = <<>> THEN ExPayload ELSE text

\* C1 as the spec states it: an entry with a wrong type is skipped alone, the
\* contents of the other allow-listed entries are returned, nothing is raised.
C1_SkipsOnlyBadEntry ==
    (ExDone /\ ExIsList /\ ExSomeMismatch) =>
        /\ ~ex_result.exc
        /\ ex_result.val = OrRaw(ContentsOf(Without(ExEntries, ExMismatch), BothNames))

\* C1, amended: a wrong type at an entry ends the traversal; the raw payload
\* is returned whatever the other entries hold, and nothing is raised.
\* Without a wrong type the entries with nothing to read (missing fields,
\* names off the allow-list, empty content) are skipped one by one.
C1_MismatchFallsBackToRaw ==
    (ExDone /\ ExIsList) =>
        /\ ~ex_result.exc
        /\ ExSomeMismatch => ex_result.val = ExPayload
        /\ ~ExSomeMismatch => ex_result.val = OrRaw(ContentsOf(ExEntries, BothNames))

\* A good entry, then a bad one: the good entry's content is not returned.
C1_Witness ==
    /\ ExDone /\ ExIsList
    /\ Len(ExEntries) = 2
    /\ HasContent(ExEntries[1], BothNames)
    /\ ExMismatch(ExEntries[2])
    /\ ex_result.val = ExPayload

\* C2 as the spec states it: with a summary entry that has content, the result
\* is the contents of the summary entries alone.
C2_SummaryContentsOnly ==
    (/\ ExDone /\ ExIsList
     /\ \E i \in 1..Len(ExEntries) : HasContent(ExEntries[i], SummaryOnly)) =>
        ex_result.val = ContentsOf(ExEntries, SummaryOnly)

\* C2, amended: for a list without a wrong type and with content under
\* "summary" or "applicant_lookup_agent", the result is the contents under
\* both names, in input order, a newline after each.
C2_AllowListedContents ==
    (/\ ExDone /\ ExIsList /\ ~ExSomeMismatch
     /\ \E i \in 1..Len(ExEntries) : HasContent(ExEntries[i], BothNames)) =>
        /\ ~ex_result.exc
        /\ ex_result.val = ContentsOf(ExEntries, BothNames)

\* Two allow-listed entries of different names, both returned, in order.
C2_Witness ==
    /\ ExDone /\ ExIsList
    /\ Len(ExEntries) = 2
    /\ HasContent(ExEntries[1], {S("applicant_lookup_agent")})
    /\ HasContent(ExEntries[2], SummaryOnly)
    /\ ex_result.val =
         ContentOf(ExEntries[1]).v \o NEWLINE \o ContentOf(ExEntries[2]).v \o NEWLINE

\* C3: a payload that is no JSON comes back unchanged, a record without a
\* payload gives the sentinel, and nothing is raised.
C3_ParseFailureReturnsPayload ==
    ExDone =>
        /\ ~ex_result.exc
        /\ (HasAnalysis(ex_analysis) /\ ~ExParsed.ok) => ex_result.val = ExPayload
        /\ ~HasAnalysis(ex_analysis) => ex_result.val = NO_ANALYSIS

C3_Witness ==
    /\ ExDone /\ HasAnalysis(ex_analysis)
    /\ ~ExParsed.ok
    /\ Len(ExPayload) > 2
    /\ ex_result = TextReturned(ExPayload)

\* C4: a payload that parses but holds no content under an allow-listed name
\* (no such entry, no list at all, or only empty content) comes back raw.
C4_NoAllowListedReturnsRaw ==
    (/\ ExDone /\ HasAnalysis(ex_analysis) /\ ExParsed.ok
     /\ \/ ExParsed.val.k # "list"
        \/ \A i \in 1..Len(ExEntries) : ~HasContent(ExEntries[i], BothNames)) =>
        ex_result = TextReturned(ExPayload)

\* A list whose entries all parse and traverse, none of them with content.
C4_Witness ==
    /\ ExDone /\ ExIsList
    /\ Len(ExEntries) = 2
    /\ ~ExSomeMismatch
    /\ Named(ExEntries[1], {S("other")})
    /\ Named(ExEntries[2], SummaryOnly) /\ ContentOf(ExEntries[2]) = EmptyStr
    /\ ex_result.val = ExPayload

\* ------------------------------------------- claims on the prompt builder
\* The labelled block of one record.
BlockOf(r) ==
    <<"Submission: ">> \o submission_name(r) \o <<"\n", "Analysis: ">>
        \o extract_outcome(r).val \o <<"\n", "\n">>
RECURSIVE Flatten(_)
Flatten(texts) == IF texts = <<>> THEN <<>> ELSE Head(texts) \o Flatten(Tail(texts))
BlocksOf(list) == [k \in 1..Len(list) |-> BlockOf(list[k])]
Framed(blocks) == PREAMBLE \o Flatten(blocks) \o SUFFIX

\* C5: the prompt is the preamble, one block per record in input order, the
\* suffix; no block for the empty list; exchanging two records exchanges
\* their blocks and nothing else.
C5_PromptIsOrderedBlocks ==
    /\ bp_pc \in {"built", "swapped"} =>
        /\ bp_prompt = Framed(BlocksOf(bp_analyses))
        /\ bp_analyses = <<>> => bp_prompt = PREAMBLE \o SUFFIX
    /\ bp_pc = "swapped" =>
        bp_swapped = Framed(Swapped(BlocksOf(bp_analyses), bp_swap[1], bp_swap[2]))

\* Two records with different blocks were exchanged.
C5_Witness ==
    /\ bp_pc = "swapped"
    /\ Len(bp_analyses) = 2
    /\ BlockOf(bp_analyses[1]) # BlockOf(bp_analyses[2])
    /\ bp_swapped # bp_prompt
    /\ bp_swapped = PREAMBLE \o BlockOf(bp_analyses[2]) \o BlockOf(bp_analyses[1]) \o SUFFIX

\* ------------------------------------------------- claims on the session
\* The script run at hand has processed a batch to its end.
BatchRan == events # <<>> /\ pc # "create_chat"

IsCall(e) == e.type = "create_chat"
IsResponse(e) == e.type = "response"
IsProgress(e) == e.type = "progress"
CallsIssued == SelectSeq(events, IsCall)
ResponsesReceived == SelectSeq(events, IsResponse)

\* Fractions compared by cross-multiplication.
Less(a, b) == a.num * b.den < b.num * a.den

\* Every document was called once, one after the other in upload order.
OneCallPerDocument ==
    /\ Len(CallsIssued) <= Len(uploaded_files)
    /\ \A k \in 1..Len(CallsIssued) :
        /\ CallsIssued[k].doc = k
        /\ CallsIssued[k].name = uploaded_files[k].name
    /\ \A j \in 1..Len(events) :
        IsCall(events[j]) =>
            \/ j = Len(events) /\ pc = "create_chat"
            \/ j < Len(events) /\ IsResponse(events[j + 1])
                               /\ events[j + 1].doc = events[j].doc
    /\ BatchRan => Len(CallsIssued) = Len(uploaded_files)

\* C6: one backend call per uploaded document, one at a time in upload
\* order, and after each document's call (once it has returned) a progress
\* fraction is reported that is strictly greater than every fraction
\* reported before it.
C6_ProgressAfterEachCall ==
    /\ OneCallPerDocument
    /\ \A j \in 1..Len(events) :
        IsResponse(events[j]) =>
            \E k \in (j + 1)..Len(events) :
                /\ IsProgress(events[k])
                /\ \A m \in 1..(k - 1) :
                    IsProgress(events[m]) => Less(events[m], events[k])

\* The records process_submissions is to return: one per response without
\* an error, in the order of the responses.
RECURSIVE RecordsOf(_)
RecordsOf(responses) ==
    IF responses = <<>> THEN <<>>
    ELSE LET r == Head(responses) IN
         IF "error" \in DOMAIN r.response THEN RecordsOf(Tail(responses))
         ELSE <<[name |-> uploaded_files[r.doc].name,
                 analysis |-> r.response["agent_response"],
                 thread |-> r.response["thread_id"]]>> \o RecordsOf(Tail(responses))
Stored ==
    [k \in 1..Len(results) |->
        [name |-> results[k]["Submission Name"],
         analysis |-> results[k]["Analysis"],
         thread |-> results[k]["Thread ID"]]]

\* C7: a backend error is terminal for its document only: no document is
\* called twice, every later document is still called, the records stored
\* are exactly those of the documents answered without an error, in upload
\* order, and the session is in the completed state.
C7_ErrorSkipsOneDocument ==
    /\ OneCallPerDocument
    /\ BatchRan =>
        /\ Len(ResponsesReceived) = Len(uploaded_files)
        /\ analysis_completed
        /\ Stored = RecordsOf(ResponsesReceived)
        /\ session_state["thread_ids"] = [k \in 1..Len(Stored) |-> Stored[k].thread]

\* The first of two documents was answered with an error, the second one
\* with a result: the second one's record alone is stored.
C7_Witness ==
    /\ BatchRan
    /\ pc = "idle"
    /\ Len(uploaded_files) = 2
    /\ "error" \in DOMAIN ResponsesReceived[1].response
    /\ "error" \notin DOMAIN ResponsesReceived[2].response
    /\ analysis_completed
    /\ Len(results) = 1
    /\ results[1]["Submission Name"] = uploaded_files[2].name

\* C8: once a new batch has been processed, no cached summary and no cached
\* follow-up questions of an earlier batch remain in the session state, and
\* none are displayed.
C8_NewBatchInvalidatesCache ==
    analysis_completed =>
        /\ "summary_content" \in DOMAIN session_state => origin.summary.batch = batch
        /\ \A name \in DOMAIN GetOr(session_state, "followup_questions", <<>>) :
            origin.followups[name] = batch
        /\ screen.questions # <<>> => origin.followups[selected_submission] = batch

\* C9: a regeneration first evicts the cached entry and then computes it
\* anew: while the call of "Regenerate Analysis" is in flight the cached
\* summary is absent, and after "Regenerate Analysis" or "Regenerate
\* Questions" the page shows a value computed by a call made for it.
C9_RegenerationEvictsThenRecomputes ==
    /\ pc = "regenerate_summary" => "summary_content" \notin DOMAIN session_state
    /\ (pc = "idle" /\ request = "regenerate_summary"
            /\ AZURE_OPENAI_KEY # "" /\ AZURE_OPENAI_ENDPOINT # "") =>
        /\ "summary_content" \in DOMAIN session_state
        /\ origin.summary.call = chat_calls
    /\ (pc = "idle" /\ request = "regenerate_questions") =>
        /\ selected_submission \in DOMAIN GetOr(session_state, "followup_questions", <<>>)
        /\ screen.questions # <<>>

CredentialsMissing == AZURE_OPENAI_KEY = "" \/ AZURE_OPENAI_ENDPOINT = ""
ChatCallInFlight == pc \in {"auto_summary", "regenerate_summary", "generate_questions"}

\* C10: with the key or the endpoint unset no chat-completion call is in
\* flight or was ever issued; instead the summary shown is the credentials
\* warning, and a press of "Regenerate Analysis" or of "Generate Follow-up
\* Questions" ends with the credentials error on the page.
C10_NoCallWithoutCredentials ==
    CredentialsMissing =>
        /\ ~ChatCallInFlight
        /\ chat_calls = 0
        /\ origin.summary.call = 0 /\ origin.followups = <<>>
        /\ (pc = "idle" /\ screen.options # <<>>) =>
            /\ screen.summary = CREDENTIALS_WARNING
            /\ session_state["summary_content"] = CREDENTIALS_WARNING
        /\ (pc = "idle" /\ request \in {"regenerate_summary", "generate_questions"}) =>
            CREDENTIALS_ERROR \in screen.errors

\* The endpoint is unset, the key is set; "Generate Follow-up Questions"
\* was pressed and the run ended with the error and without a call.
C10_Witness ==
    /\ AZURE_OPENAI_KEY # "" /\ AZURE_OPENAI_ENDPOINT = ""
    /\ pc = "idle"
    /\ request = "generate_questions"
    /\ CREDENTIALS_ERROR \in screen.errors
    /\ screen.summary = CREDENTIALS_WARNING
    /\ screen.questions = <<>>
    /\ chat_calls = 0

\* ----------------------------------------------- claims on the chat client
\* The decoded body has the fields of a completion: an object whose
\* "choices" is a non-empty list, its first item an object whose "message"
\* is an object with a "content".
HasExpectedFields(data) ==
    /\ data.k = "dict"
    /\ <<"choices">> \in DOMAIN data.v
    /\ LET choices == data.v[<<"choices">>] IN
        /\ choices.k = "list"
        /\ choices.v # <<>>
        /\ LET choice == choices.v[1] IN
            /\ choice.k = "dict"
            /\ <<"message">> \in DOMAIN choice.v
            /\ choice.v[<<"message">>].k = "dict"
            /\ <<"content">> \in DOMAIN choice.v[<<"message">>].v

\* The POST failed in transport (it raised, or answered with an error
\* status), or its body is no JSON or lacks the expected fields.
ReplyFailed(reply) ==
    \/ reply.raises
    \/ reply.status >= 400
    \/ ~json_loads(reply.body).ok
    \/ ~HasExpectedFields(json_loads(reply.body).val)

CcDone == cc.pc = "done"

\* C11: when the call fails in transport or the response lacks the expected
\* fields, get_chat_completion returns None and the two generators return
\* their sentinel strings; none of the three raises, and the generators
\* never return None.
C11_FailureGivesSentinel ==
    CcDone =>
        /\ ~cc.completion.exc /\ ~cc.summary.exc /\ ~cc.questions.exc
        /\ cc.summary.val # PyNone /\ cc.questions.val # PyNone
        /\ ReplyFailed(cc.reply) =>
            /\ cc.completion.val = PyNone
            /\ cc.summary.val = PyStr(FAILED_SUMMARY)
            /\ cc.questions.val = PyStr(FAILED_QUESTIONS)

\* A 200 response whose first choice has no "message": the subscript raises
\* inside the try block and the sentinels come back.
C11_Witness ==
    /\ CcDone
    /\ ~cc.reply.raises /\ cc.reply.status = 200
    /\ json_loads(cc.reply.body).ok
    /\ ~HasExpectedFields(json_loads(cc.reply.body).val)
    /\ json_loads(cc.reply.body).val.k = "dict"
    /\ <<"choices">> \in DOMAIN json_loads(cc.reply.body).val.v
    /\ json_loads(cc.reply.body).val.v[<<"choices">>] = PyList(<<EmptyDict>>)
    /\ cc.completion = Returned(PyNone)
    /\ cc.summary = Returned(PyStr(FAILED_SUMMARY))
    /\ cc.questions = Returned(PyStr(FAILED_QUESTIONS))

\* ------------------------------------------ claims on the session, continued
\* The records of the stored results that carry the name.
RecordsNamed(name) == {k \in 1..Len(results) : results[k]["Submission Name"] = name}

\* C12: the records stored as the results of a batch have pairwise distinct
\* names, so the submission selected by name for the follow-up questions is
\* exactly one record.
C12_NamesDistinct ==
    /\ \A i, j \in 1..Len(results) :
        i # j => results[i]["Submission Name"] # results[j]["Submission Name"]
    /\ (pc \in {"idle", "generate_questions"} /\ selected_submission # <<>>) =>
        Cardinality(RecordsNamed(selected_submission)) = 1

\* The summary of the batch on display was generated and is stored.
SummaryCached ==
    /\ analysis_completed
    /\ GetOr(session_state, "summary_generated", FALSE)
    /\ "summary_content" \in DOMAIN session_state

\* A step of a run started by "Regenerate Analysis", or the press itself.
RegenerateAnalysisStep == click = "regenerate_summary" \/ click' = "regenerate_summary"

\* C13: once the summary of the batch is cached, no step other than those of
\* "Regenerate Analysis" issues a chat-completion call for the summary or
\* changes the cached content, and a page that shows results shows that
\* content.  (A new batch is processed only after "Clear Results", when the
\* session is no longer completed.)
C13_SummaryIsCachedRead ==
    [][(SummaryCached /\ ~RegenerateAnalysisStep) =>
        /\ "summary_content" \in DOMAIN session_state'
        /\ session_state'["summary_content"] = session_state["summary_content"]
        /\ GetOr(session_state', "summary_generated", FALSE)
        /\ pc' \notin {"auto_summary", "regenerate_summary"}
        /\ origin'.summary = origin.summary
        /\ (pc' = "idle" /\ screen'.options # <<>>) =>
            screen'.summary = session_state["summary_content"]]_vars

\* The results were rendered again in a later run than the one that
\* processed the batch: the one call of the automatic summary is the only
\* call made, and its content is on the page.
C13_Witness ==
    /\ SummaryCached
    /\ pc = "idle"
    /\ events = <<>>
    /\ request = "none"
    /\ screen.options # <<>>
    /\ chat_calls = 1
    /\ origin.summary = [batch |-> batch, call |-> 1]
    /\ screen.summary = session_state["summary_content"]

\* ------------------------------------------- claims on the submission tab
TabDone == tab.pc = "done"
TabPayload == tab.result["Analysis"]

\* An entry of the decoded payload that the tab's allow-list names and that
\* has non-empty content.
TabMatch(entry) ==
    /\ IsObj(entry)
    /\ IsObj(FieldOr(entry, "__dict__", EmptyDict))
    /\ FieldOr(FieldOr(entry, "__dict__", EmptyDict), "chat_name", EmptyStr) = S("summary")
    /\ LET response == FieldOr(FieldOr(entry, "__dict__", EmptyDict), "chat_response", EmptyDict)
       IN  /\ IsObj(response)
           /\ IsObj(FieldOr(response, "chat_message", EmptyDict))
           /\ IsObj(FieldOr(FieldOr(response, "chat_message", EmptyDict), "__dict__", EmptyDict))
           /\ truthy(FieldOr(FieldOr(FieldOr(response, "chat_message", EmptyDict),
                                     "__dict__", EmptyDict), "content", EmptyStr))

\* The payload parses as JSON and no entry of it matches.
TabNoMatch ==
    /\ json_loads(TabPayload).ok
    /\ LET data == json_loads(TabPayload).val IN
        data.k = "list" => \A i \in 1..Len(data.v) : ~TabMatch(data.v[i])

\* C14: when the payload parses as JSON but no entry matches the tab's
\* allow-list with non-empty content, the tab shows the raw payload; every
\* tab shows some analysis text.
C14_TabFallsBackToRaw ==
    TabDone =>
        /\ ~tab.shown.exc
        /\ tab.shown.markdown # <<>>
        /\ TabNoMatch => tab.shown.markdown = <<PyStr(TabPayload)>>

\* ------------------------------------------ claims on the completed state
thread_ids == GetOr(session_state, "thread_ids", <<>>)

\* The step leaves the stored batch alone and issues no backend call.
BatchKept ==
    /\ GetOr(session_state', "analysis_completed", FALSE)
    /\ GetOr(session_state', "results", <<>>) = results
    /\ GetOr(session_state', "thread_ids", <<>>) = thread_ids
    /\ pc' # "create_chat"
    /\ batch' = batch
    /\ events' \in {events, <<>>}

\* The step is that of "Clear Results".
BatchCleared ==
    /\ pc = "main" /\ click = "clear"
    /\ ~GetOr(session_state', "analysis_completed", FALSE)
    /\ GetOr(session_state', "results", <<>>) = <<>>
    /\ GetOr(session_state', "thread_ids", <<>>) = <<>>
    /\ pc' # "create_chat"
    /\ batch' = batch

\* C15: in the completed state every step, a press of "Analyze Submissions"
\* with whatever files included, issues no backend call and leaves results
\* and thread_ids as they are; only "Clear Results" changes them: it resets
\* analysis_completed, results and thread_ids.
C15_CompletedBatchIsFrozen ==
    [][analysis_completed => (BatchKept \/ BatchCleared)]_vars

\* The second batch (processed after "Clear Results") is completed with
\* zero records, every document having failed; "Analyze Submissions" was
\* pressed again and the run goes on to the display without a backend call.
C15_Witness ==
    /\ batch = 2
    /\ analysis_completed
    /\ results = <<>>
    /\ click = "analyze"
    /\ uploaded_files # <<>>
    /\ pc = "display"
    /\ events = <<>>

====
